---- MODULE Spec2Model ----
(***************************************************************************)
(* Model of src/yandex.py: the YandexTranslate API wrapper.                *)
(*                                                                         *)
(* Python values are encoded as records so that values of different        *)
(* Python types can be compared: None is [py |-> "NoneType"], the JSON     *)
(* object under 'langs' is [py |-> "dict", keys |-> <set of codes>], a     *)
(* decoded JSON body is a TLA+ record of its fields.  A call either        *)
(* returns a value or raises an exception.                                 *)
(***************************************************************************)
EXTENDS Naturals, Sequences, FiniteSets, TLC

(***************************************************************************)
(* Bounds and the finite sets the inputs are drawn from.                   *)
(***************************************************************************)
\* Cap on the getLangs requests one client may issue in a run.
MaxGetLangs == 2
\* Cap on the getLangs requests the racing threads may issue together.
MaxRaceGetLangs == 3

\* Clients that may be constructed in the process.
Instances == {"y1", "y2"}
\* The key handed to the constructor of each client: one key per client.
ApiKeyOf(self) == "key-" \o self
\* Texts handed to translate and detect_language.
Texts == {"hello", ""}
\* The source argument's default, None (no language code is this string).
NoSource == "<None>"
Targets == {"en", "zz"}
Sources == {NoSource, "es"}
\* No client: the value of `watch` in a run that records calls.
NoClient == ""
\* Threads of SpecRace.
Threads == {"t1", "t2"}

(***************************************************************************)
(* Python values.                                                          *)
(***************************************************************************)
None == [py |-> "NoneType"]
LangsVal(codes) == [py |-> "dict", keys |-> codes]

Return(v) == [kind |-> "return", value |-> v]
Raise(e) == [kind |-> "raise", exc |-> e]

YandexException(arg) == [type |-> "YandexException", arg |-> arg]
TypeError == [type |-> "TypeError", arg |-> [msg |-> "argument of type 'NoneType' is not iterable"]]
JSONDecodeError == [type |-> "JSONDecodeError", arg |-> [msg |-> "Expecting value"]]

(***************************************************************************)
(* The remote service: what one GET may come back with.                    *)
(***************************************************************************)
URL == "https://translate.yandex.net/api/v1.5/tr.json/"

LangsA == [langs |-> LangsVal({"en", "es"})]
LangsB == [langs |-> LangsVal({"en"})]
ErrBody == [code |-> 401, message |-> "ApiKeyInvalid"]

\* A response body is text: JSON text of a document, or something else.
JsonText(doc) == [raw |-> "json", doc |-> doc]
HtmlText == [raw |-> "html"]
\* What a 200 and what a 401 may carry.  ErrBody is also the 200 body with
\* no 'langs' field.
OkBodies == {JsonText(LangsA), JsonText(LangsB), JsonText(ErrBody), HtmlText}
ErrBodies == {JsonText(ErrBody), HtmlText}

ConnectionError == [kind |-> "ConnectionError"]
Response(status, body) == [kind |-> "response", status_code |-> status, body |-> body]
NoOutcome == [kind |-> "none"]
Outcomes ==
    {ConnectionError} \cup {Response(200, b) : b \in OkBodies} \cup {Response(401, b) : b \in ErrBodies}
\* The outcomes to choose among for a request that is sent only if `sends`.
OutcomesIf(sends) == IF sends THEN Outcomes ELSE {NoOutcome}

\* response.json()
Json(body) == IF body.raw = "json" THEN Return(body.doc) ELSE Raise(JSONDecodeError)
\* dict.get(key)
Get(doc, key) == IF key \in DOMAIN doc THEN doc[key] ELSE None

Succeeded(o) == o.kind = "response" /\ o.status_code = 200 /\ o.body.raw = "json"

(***************************************************************************)
(* State.                                                                  *)
(***************************************************************************)
VARIABLES
    watch,       \* the client whose fetches the run records, or NoClient
                 \* when it records every call in full instead
    live,        \* the constructed YandexTranslate instances
    api_key,     \* self.api_key of each instance
    cache,       \* the lru_cache of supported_languages: entries, oldest first
    nGetLangs,   \* history: getLangs requests issued by the watched client
    nFetched,    \* history: those of them that succeeded
    firstFetch,  \* history: outcome of the watched client's first getLangs request
    last,        \* history: the last public operation (of the watched client,
                 \* if any), its requests and result
    pc,          \* SpecRace: where each thread is in its read
    local,       \* SpecRace: the value a thread's fetch produced
    lastRead     \* SpecRace: history of each thread's last finished read

vars == <<watch, live, api_key, cache, nGetLangs, nFetched, firstFetch, last, pc, local, lastRead>>

(***************************************************************************)
(* functools.lru_cache(maxsize=1), keyed by the call's arguments (self).   *)
(***************************************************************************)
maxsize == 1

LruHas(c, key) == \E n \in 1..Len(c) : c[n].key = key
LruGet(c, key) == LET n == CHOOSE m \in 1..Len(c) : c[m].key = key IN c[n].value
LruWithout(c, key) == SelectSeq(c, LAMBDA e : e.key # key)

\* A hit moves the entry to the most recently used end.
LruTouch(c, key) == Append(LruWithout(c, key), [key |-> key, value |-> LruGet(c, key)])

\* Mutations of LruStore: a cache that keeps nothing (maxsize=0), and a
\* store that replaces the entry another caller stored meanwhile.
LruStoreNever(c, key, value) == c

LruStoreOverwrite(c, key, value) ==
    Append(IF Len(LruWithout(c, key)) < maxsize THEN LruWithout(c, key) ELSE Tail(c),
           [key |-> key, value |-> value])

\* After a miss and the call: keep an entry another caller stored meanwhile,
\* else add one, evicting the oldest when the cache is full.
LruStore(c, key, value) ==
    IF LruHas(c, key) THEN c
    ELSE IF Len(c) < maxsize THEN Append(c, [key |-> key, value |-> value])
    ELSE Append(Tail(c), [key |-> key, value |-> value])

(***************************************************************************)
(* The methods, as functions of the cache and of the transport's outcomes. *)
(* Each yields the cache afterwards, the requests sent (with what came     *)
(* back), the values its reads of supported_languages gave, and its        *)
(* result.                                                                 *)
(***************************************************************************)
Sent(endpoint, payload, o) == [url |-> URL \o endpoint, params |-> payload, outcome |-> o]

\* Mutation of GetApiResponse: the status code is not looked at.
GetApiResponseNoStatusCheck(endpoint, payload, o) ==
    [sent |-> <<Sent(endpoint, payload, o)>>,
     result |-> IF o.kind = "ConnectionError"
                  THEN Raise(YandexException([msg |-> "API unavailable"]))
                ELSE Json(o.body)]

\* _get_api_response: one GET, no retry.
GetApiResponse(endpoint, payload, o) ==
    [sent |-> <<Sent(endpoint, payload, o)>>,
     result |-> IF o.kind = "ConnectionError"
                  THEN Raise(YandexException([msg |-> "API unavailable"]))
                ELSE IF o.status_code # 200
                  THEN LET j == Json(o.body) IN
                       IF j.kind = "raise" THEN j
                       ELSE Raise(YandexException([body |-> j.value]))
                ELSE Json(o.body)]

\* The body of the supported_languages property.
FetchLangs(key, o) ==
    LET r == GetApiResponse("getLangs", [ui |-> "en", key |-> key], o) IN
    [sent |-> r.sent,
     result |-> IF r.result.kind = "raise" THEN r.result
                ELSE Return(Get(r.result.value, "langs"))]

\* Mutation of SupportedLanguages: a failed fetch is swallowed and its
\* absent result memoized.
SupportedLanguagesCachesFailure(c, self, key, o) ==
    IF LruHas(c, self)
      THEN [cache |-> LruTouch(c, self), sent |-> <<>>, result |-> Return(LruGet(c, self))]
    ELSE LET r == FetchLangs(key, o)
             v == IF r.result.kind = "raise" THEN None ELSE r.result.value IN
         [cache |-> LruStore(c, self, v), sent |-> r.sent, result |-> Return(v)]

\* supported_languages: the property behind lru_cache.
SupportedLanguages(c, self, key, o) ==
    IF LruHas(c, self)
      THEN [cache |-> LruTouch(c, self), sent |-> <<>>, result |-> Return(LruGet(c, self))]
    ELSE LET r == FetchLangs(key, o) IN
         [cache |-> IF r.result.kind = "raise" THEN c ELSE LruStore(c, self, r.result.value),
          sent |-> r.sent,
          result |-> r.result]

\* `code not in langs`
NotIn(code, langs) == code \notin langs.keys

NotSupported(which, code) ==
    YandexException([msg |-> which \o " language '" \o code \o "' not supported"])

\* Mutation of Direction: the codes the other way round.
DirectionSwapped(source, target) == target \o "-" \o source

\* '{}-{}'.format(source, target)
Direction(source, target) == source \o "-" \o target

\* Mutation of GetTranslateDirection: the source is validated before the
\* target.
GetTranslateDirectionSourceFirst(c, self, key, source, target, o1, o2) ==
    LET r1 == SupportedLanguages(c, self, key, o1)
        one(res) == [cache |-> r1.cache, sent |-> r1.sent, reads |-> <<r1.result>>, result |-> res]
    IN
    IF r1.result.kind = "raise" THEN one(r1.result)
    ELSE IF r1.result.value = None THEN one(Raise(TypeError))
    ELSE IF source # NoSource /\ NotIn(source, r1.result.value)
      THEN one(Raise(NotSupported("source", source)))
    ELSE IF NotIn(target, r1.result.value) THEN one(Raise(NotSupported("target", target)))
    ELSE IF source = NoSource THEN one(Return(target))
    ELSE one(Return(Direction(source, target)))

\* _get_translate_direction
GetTranslateDirection(c, self, key, source, target, o1, o2) ==
    LET r1 == SupportedLanguages(c, self, key, o1)
        one(res) == [cache |-> r1.cache, sent |-> r1.sent, reads |-> <<r1.result>>, result |-> res]
    IN
    IF r1.result.kind = "raise" THEN one(r1.result)
    ELSE IF r1.result.value = None THEN one(Raise(TypeError))
    ELSE IF NotIn(target, r1.result.value) THEN one(Raise(NotSupported("target", target)))
    ELSE IF source = NoSource THEN one(Return(target))
    ELSE LET r2 == SupportedLanguages(r1.cache, self, key, o2)
             two(res) == [cache |-> r2.cache, sent |-> r1.sent \o r2.sent,
                          reads |-> <<r1.result, r2.result>>, result |-> res]
         IN
         IF r2.result.kind = "raise" THEN two(r2.result)
         ELSE IF r2.result.value = None THEN two(Raise(TypeError))
         ELSE IF NotIn(source, r2.result.value) THEN two(Raise(NotSupported("source", source)))
         ELSE two(Return(Direction(source, target)))

TranslatePayload(text, direction, key) ==
    [text |-> text, format |-> "plain", lang |-> direction, key |-> key]

\* Mutation of TranslateCall: a failed translate request is sent again.
TranslateCallRetries(c, self, key, text, target, source, o1, o2, o3) ==
    LET d == GetTranslateDirection(c, self, key, source, target, o1, o2) IN
    IF d.result.kind = "raise" THEN d
    ELSE LET r == GetApiResponse("translate", TranslatePayload(text, d.result.value, key), o3) IN
         [cache |-> d.cache,
          sent |-> d.sent \o r.sent \o (IF r.result.kind = "raise" THEN r.sent ELSE <<>>),
          reads |-> d.reads, result |-> r.result]

\* translate
TranslateCall(c, self, key, text, target, source, o1, o2, o3) ==
    LET d == GetTranslateDirection(c, self, key, source, target, o1, o2) IN
    IF d.result.kind = "raise" THEN d
    ELSE LET r == GetApiResponse("translate", TranslatePayload(text, d.result.value, key), o3) IN
         [cache |-> d.cache, sent |-> d.sent \o r.sent, reads |-> d.reads, result |-> r.result]

DetectPayload(text, key) == [text |-> text, format |-> "plain", key |-> key]

\* Mutation of DetectCall: the payload of translate, with a 'lang'.
DetectCallWithLang(c, key, text, o) ==
    LET r == GetApiResponse("detect", TranslatePayload(text, "en", key), o) IN
    [cache |-> c, sent |-> r.sent, reads |-> <<>>, result |-> r.result]

\* detect_language
DetectCall(c, key, text, o) ==
    LET r == GetApiResponse("detect", DetectPayload(text, key), o) IN
    [cache |-> c, sent |-> r.sent, reads |-> <<>>, result |-> r.result]

(***************************************************************************)
(* History bookkeeping.                                                    *)
(***************************************************************************)
IsGetLangs(s) == s.url = URL \o "getLangs"
IsTranslate(s) == s.url = URL \o "translate"
IsDetect(s) == s.url = URL \o "detect"
GetLangsIn(sent) == SelectSeq(sent, IsGetLangs)
FetchedIn(sent) == SelectSeq(sent, LAMBDA s : IsGetLangs(s) /\ Succeeded(s.outcome))

FetchFailed(sent) == GetLangsIn(sent) # <<>> /\ FetchedIn(sent) = <<>>

NoCall ==
    [op |-> "none", self |-> "", args |-> [text |-> ""], pre |-> <<>>,
     sent |-> <<>>, reads |-> <<>>, result |-> Return(None), retry |-> FALSE]

\* A finished operation as the history of the watched client keeps it:
\* which endpoints it asked, what its reads gave and how it ended.
Summary(call) ==
    [call EXCEPT !.args = NoCall.args, !.pre = <<>>, !.retry = FALSE,
                 !.sent = [n \in 1..Len(call.sent) |->
                             [url |-> call.sent[n].url, params |-> [ui |-> "en"],
                              outcome |-> NoOutcome]]]

\* Record a finished operation of `self` with effect e.  A run that
\* watches a client stops short of more than MaxGetLangs getLangs
\* requests by it.
Finish(op, self, args, e) ==
    LET call == [op |-> op, self |-> self, args |-> args, pre |-> cache,
                 sent |-> e.sent, reads |-> e.reads, result |-> e.result,
                 retry |-> last.self = self /\ FetchFailed(last.sent)]
    IN
    /\ cache' = e.cache
    /\ IF watch = NoClient
         THEN /\ last' = call
              /\ UNCHANGED <<nGetLangs, nFetched, firstFetch>>
         ELSE IF self = watch
         THEN /\ nGetLangs + Len(GetLangsIn(e.sent)) <= MaxGetLangs
              /\ nGetLangs' = nGetLangs + Len(GetLangsIn(e.sent))
              /\ nFetched' = nFetched + Len(FetchedIn(e.sent))
              /\ firstFetch' = IF firstFetch = NoOutcome /\ GetLangsIn(e.sent) # <<>>
                                THEN GetLangsIn(e.sent)[1].outcome ELSE firstFetch
              /\ last' = Summary(call)
         ELSE UNCHANGED <<nGetLangs, nFetched, firstFetch, last>>

(***************************************************************************)
(* The sequential program: each public operation runs to completion.       *)
(***************************************************************************)
Start(watched) ==
    /\ watch \in watched
    /\ live = {}
    /\ api_key = [i \in Instances |-> ""]
    /\ cache = <<>>
    /\ nGetLangs = 0
    /\ nFetched = 0
    /\ firstFetch = NoOutcome
    /\ last = NoCall
    /\ pc = [t \in Threads |-> "idle"]
    /\ local = [t \in Threads |-> None]
    /\ lastRead = [t \in Threads |-> [kind |-> "none", result |-> Return(None)]]

Init == Start({NoClient})
InitFetches == Start(Instances)

\* YandexTranslate(key)
Construct(self, key) ==
    /\ self \notin live
    /\ live' = live \cup {self}
    /\ api_key' = [api_key EXCEPT ![self] = key]
    /\ UNCHANGED <<watch, cache, nGetLangs, nFetched, firstFetch, last, pc, local, lastRead>>

\* self.supported_languages
ReadSupportedLanguages(self) ==
    /\ self \in live
    /\ \E o \in OutcomesIf(~LruHas(cache, self)) :
         LET r == SupportedLanguages(cache, self, api_key[self], o) IN
         Finish("supported_languages", self, [text |-> ""],
                [cache |-> r.cache, sent |-> r.sent, reads |-> <<r.result>>, result |-> r.result])
    /\ UNCHANGED <<watch, live, api_key, pc, local, lastRead>>

\* self.translate(text, target, source)
Translate(self, text, target, source) ==
    /\ self \in live
    /\ \E o1 \in OutcomesIf(~LruHas(cache, self)) :
         LET r1 == SupportedLanguages(cache, self, api_key[self], o1) IN
         \E o2 \in OutcomesIf(r1.result.kind = "return" /\ ~LruHas(r1.cache, self)) :
           LET d == GetTranslateDirection(cache, self, api_key[self], source, target, o1, o2) IN
           \E o3 \in OutcomesIf(d.result.kind = "return") :
             Finish("translate", self, [text |-> text, target |-> target, source |-> source],
                    TranslateCall(cache, self, api_key[self], text, target, source, o1, o2, o3))
    /\ UNCHANGED <<watch, live, api_key, pc, local, lastRead>>

\* self.detect_language(text)
DetectLanguage(self, text) ==
    /\ self \in live
    /\ \E o \in Outcomes :
         Finish("detect_language", self, [text |-> text], DetectCall(cache, api_key[self], text, o))
    /\ UNCHANGED <<watch, live, api_key, pc, local, lastRead>>

Next ==
    \/ \E self \in Instances : Construct(self, ApiKeyOf(self))
    \/ \E self \in Instances : ReadSupportedLanguages(self)
    \/ \E self \in Instances, text \in Texts, target \in Targets, source \in Sources :
         Translate(self, text, target, source)
    \/ \E self \in Instances, text \in Texts : DetectLanguage(self, text)

Spec == Init /\ [][Next]_vars
SpecFetches == InitFetches /\ [][Next]_vars

(***************************************************************************)
(* Threads reading supported_languages of one client concurrently.  A read *)
(* is the lru_cache wrapper's three steps: look the key up; on a miss call *)
(* the property's body, which sends the request and waits; then store the  *)
(* value unless the key has been stored meanwhile.  Other threads run      *)
(* between the steps.                                                      *)
(***************************************************************************)
Shared == CHOOSE i \in Instances : TRUE

InitRace ==
    /\ watch = Shared
    /\ live = {Shared}
    /\ api_key = [i \in Instances |-> IF i = Shared THEN ApiKeyOf(i) ELSE ""]
    /\ cache = <<>>
    /\ nGetLangs = 0
    /\ nFetched = 0
    /\ firstFetch = NoOutcome
    /\ last = NoCall
    /\ pc = [t \in Threads |-> "idle"]
    /\ local = [t \in Threads |-> None]
    /\ lastRead = [t \in Threads |-> [kind |-> "none", result |-> Return(None)]]

\* The lookup finds the key: the read returns the cached value.
ReadHit(t) ==
    /\ pc[t] = "idle"
    /\ LruHas(cache, Shared)
    /\ cache' = LruTouch(cache, Shared)
    /\ lastRead' = [lastRead EXCEPT ![t] = [kind |-> "hit", result |-> Return(LruGet(cache, Shared))]]
    /\ UNCHANGED <<watch, live, api_key, nGetLangs, nFetched, firstFetch, last, pc, local>>

\* The lookup misses: the read goes on to call the property's body.
ReadMiss(t) ==
    /\ pc[t] = "idle"
    /\ ~LruHas(cache, Shared)
    /\ pc' = [pc EXCEPT ![t] = "call"]
    /\ UNCHANGED <<watch, live, api_key, cache, nGetLangs, nFetched, firstFetch, last, local, lastRead>>

\* The body runs: one getLangs request; a failure ends the read.
Fetch(t) ==
    /\ pc[t] = "call"
    /\ nGetLangs < MaxRaceGetLangs
    /\ \E o \in Outcomes :
         LET r == FetchLangs(api_key[Shared], o) IN
         /\ nGetLangs' = nGetLangs + Len(GetLangsIn(r.sent))
         /\ nFetched' = nFetched + Len(FetchedIn(r.sent))
         /\ firstFetch' = IF firstFetch = NoOutcome THEN o ELSE firstFetch
         /\ IF r.result.kind = "raise"
              THEN /\ pc' = [pc EXCEPT ![t] = "idle"]
                   /\ lastRead' = [lastRead EXCEPT ![t] = [kind |-> "miss", result |-> r.result]]
                   /\ UNCHANGED local
              ELSE /\ pc' = [pc EXCEPT ![t] = "store"]
                   /\ local' = [local EXCEPT ![t] = r.result.value]
                   /\ UNCHANGED lastRead
    /\ UNCHANGED <<watch, live, api_key, cache, last>>

\* Back in the wrapper: store the value and return it.
Store(t) ==
    /\ pc[t] = "store"
    /\ cache' = LruStore(cache, Shared, local[t])
    /\ pc' = [pc EXCEPT ![t] = "idle"]
    /\ lastRead' = [lastRead EXCEPT ![t] = [kind |-> "miss", result |-> Return(local[t])]]
    /\ UNCHANGED <<watch, live, api_key, nGetLangs, nFetched, firstFetch, last, local>>

NextRace ==
    \/ \E t \in Threads : ReadHit(t)
    \/ \E t \in Threads : ReadMiss(t)
    \/ \E t \in Threads : Fetch(t)
    \/ \E t \in Threads : Store(t)

SpecRace == InitRace /\ [][NextRace]_vars

(***************************************************************************)
(* Properties.  Under Spec, `last` is the last public operation in full;   *)
(* under SpecFetches it is the watched client's last operation, beside the *)
(* count and first outcome of that client's getLangs requests.             *)
(***************************************************************************)
IsRead == last.op = "supported_languages"
IsTranslateOp == last.op = "translate"
IsDetectOp == last.op = "detect_language"
TranslateReqs == SelectSeq(last.sent, IsTranslate)
\* The 'langs' field of a response that succeeded.
LangsOf(o) == IF "langs" \in DOMAIN o.body.doc THEN o.body.doc.langs ELSE None

\* C1: with a single client in the process and a first getLangs request
\* that succeeds, that request is the only one, however many reads follow
\* (direct or inside translate), and every read returns the 'langs' field
\* of that first response.
C1_OneFetchSameValue ==
    (Cardinality(live) = 1 /\ firstFetch # NoOutcome /\ Succeeded(firstFetch))
        => /\ nGetLangs = 1
           /\ \A n \in 1..Len(last.reads) : last.reads[n] = Return(LangsOf(firstFetch))

\* A translate of the single client, after the fetch, whose two reads were
\* served from the cache.
C1_Witness ==
    /\ Cardinality(live) = 1 /\ firstFetch # NoOutcome /\ Succeeded(firstFetch)
    /\ IsTranslateOp /\ Len(last.reads) = 2 /\ GetLangsIn(last.sent) = <<>>

\* The language list the last translate validated against, when its first
\* read gave one.
Validated == IsTranslateOp /\ last.reads[1].kind = "return" /\ last.reads[1].value # None
Langs == last.reads[1].value.keys

\* C2: translate validates before it sends.  An unsupported target fails
\* with an error naming the target, whatever the source (the target is
\* checked first); a supported target with a set, unsupported source fails
\* with an error naming the source; in both cases no request goes to the
\* 'translate' endpoint.
C2_ValidatesBeforeSend ==
    Validated =>
      /\ last.args.target \notin Langs =>
            /\ last.result = Raise(YandexException(
                    [msg |-> "target language '" \o last.args.target \o "' not supported"]))
            /\ TranslateReqs = <<>>
      /\ (last.args.target \in Langs /\ last.args.source # NoSource
            /\ last.args.source \notin Langs) =>
            /\ last.result = Raise(YandexException(
                    [msg |-> "source language '" \o last.args.source \o "' not supported"]))
            /\ TranslateReqs = <<>>

\* A translate whose target and source are both unsupported.
C2_Witness ==
    /\ Validated
    /\ last.args.target \notin Langs
    /\ last.args.source # NoSource /\ last.args.source \notin Langs
    /\ last.result.kind = "raise"

\* C3: every request is attempted once and its outcome decides what
\* follows.  A connection failure fails the operation with the message
\* 'API unavailable'; a non-200 response fails it with an error carrying
\* the decoded JSON body; a 200 response makes the request return the
\* decoded JSON body (the result of translate and detect_language, and,
\* through its 'langs' field, of a read of supported_languages).  Nothing
\* is sent after a failed request and no request is sent twice.  (A body
\* that is not JSON has no decoded JSON body: the decoder's error
\* propagates.)
C3_TransportDecides ==
    /\ \A m, n \in 1..Len(last.sent) : m # n => last.sent[m].url # last.sent[n].url
    /\ \A n \in 1..Len(last.sent) :
         LET o == last.sent[n].outcome IN
         /\ o.kind = "ConnectionError" =>
               /\ n = Len(last.sent)
               /\ last.result = Raise(YandexException([msg |-> "API unavailable"]))
         /\ (o.kind = "response" /\ o.status_code # 200 /\ o.body.raw = "json") =>
               /\ n = Len(last.sent)
               /\ last.result = Raise(YandexException([body |-> o.body.doc]))
         /\ (Succeeded(o) /\ ~IsGetLangs(last.sent[n])) =>
               /\ n = Len(last.sent)
               /\ last.result = Return(o.body.doc)
         /\ (Succeeded(o) /\ IsGetLangs(last.sent[n])) =>
               \E k \in 1..Len(last.reads) : last.reads[k] = Return(LangsOf(o))

\* A translate whose getLangs request succeeded and whose translate
\* request came back 401 with a JSON body.
C3_Witness ==
    /\ IsTranslateOp /\ Len(last.sent) = 2
    /\ Succeeded(last.sent[1].outcome)
    /\ last.sent[2].outcome.kind = "response"
    /\ last.sent[2].outcome.status_code = 401
    /\ last.sent[2].outcome.body.raw = "json"
    /\ last.result.kind = "raise"

\* C4: with target and source from the supported-language set, translate
\* sends one 'translate' request carrying {text, format: 'plain', lang,
\* key}, where lang is source-target when a source is given and the
\* target alone when not, and returns the decoded body unmodified.
C4_TranslateRequest ==
    (Validated /\ last.args.target \in Langs
       /\ (last.args.source = NoSource \/ last.args.source \in Langs)) =>
      /\ Len(TranslateReqs) = 1
      /\ IsTranslate(last.sent[Len(last.sent)])
      /\ LET req == last.sent[Len(last.sent)] IN
         /\ req.params = [text |-> last.args.text, format |-> "plain",
                           lang |-> IF last.args.source = NoSource THEN last.args.target
                                    ELSE last.args.source \o "-" \o last.args.target,
                           key |-> api_key[last.self]]
         /\ Succeeded(req.outcome) => last.result = Return(req.outcome.body.doc)

\* translate(text, target='en', source='es') sent lang=es-en and the
\* body came back.
C4_Witness ==
    /\ Validated /\ last.args.target = "en" /\ last.args.source = "es"
    /\ Len(TranslateReqs) = 1
    /\ TranslateReqs[1].params.lang = "es-en"
    /\ last.result.kind = "return"

\* The outcome of the getLangs request the last operation sent first.
Fetch1 == GetLangsIn(last.sent)[1].outcome

\* C5: a failed language-list fetch is not memoized.  After a read
\* (direct or inside translate) whose getLangs request failed, the cache
\* holds nothing for the client; the next read on that client sends a new
\* getLangs request and, if it succeeds, returns and memoizes its 'langs'
\* value.
C5_FailureNotMemoized ==
    (IsRead \/ IsTranslateOp) =>
      /\ FetchFailed(last.sent) => ~LruHas(cache, last.self)
      /\ last.retry =>
            /\ ~LruHas(last.pre, last.self)
            /\ Len(GetLangsIn(last.sent)) = 1
            /\ Succeeded(Fetch1) =>
                  /\ last.reads[1] = Return(LangsOf(Fetch1))
                  /\ LruHas(cache, last.self)
                  /\ LruGet(cache, last.self) = LangsOf(Fetch1)

\* A read that follows a failed read of the same client, fetches again
\* and succeeds.
C5_Witness ==
    /\ IsRead /\ last.retry
    /\ Len(GetLangsIn(last.sent)) = 1 /\ Succeeded(Fetch1)
    /\ LruHas(cache, last.self)

\* C7 as stated: every public operation, in every state of the client,
\* performs at most one network round-trip per invocation.
C7_AtMostOneRoundTrip == Len(last.sent) <= 1

\* C7 as amended: supported_languages and detect_language perform at most
\* one round-trip per invocation; translate performs at most two, a
\* getLangs request when the client's language list is not cached and
\* then, if validation passes, one 'translate' request.
C7_RoundTrips ==
    /\ (IsRead \/ IsDetectOp) => Len(last.sent) <= 1
    /\ IsTranslateOp =>
         /\ Len(last.sent) <= 2
         /\ Len(GetLangsIn(last.sent)) <= 1
         /\ Len(TranslateReqs) <= 1
         /\ GetLangsIn(last.sent) # <<>> => (~LruHas(last.pre, last.self) /\ IsGetLangs(last.sent[1]))

\* A translate on an unset cache: getLangs, then translate.
C7_Witness ==
    /\ IsTranslateOp /\ Len(last.sent) = 2
    /\ IsGetLangs(last.sent[1]) /\ IsTranslate(last.sent[2])

\* C8: detect_language is a pass-through.  Whatever the cache holds, it
\* sends exactly one GET, to 'detect', with exactly {text, format:
\* 'plain', key}; it reads no language list, sends no getLangs request,
\* leaves the cache as it was and fails only as the transport fails; the
\* decoded body is returned unmodified.
C8_DetectPassThrough ==
    IsDetectOp =>
      /\ Len(last.sent) = 1
      /\ last.sent[1].url = URL \o "detect"
      /\ last.sent[1].params = [text |-> last.args.text, format |-> "plain",
                                key |-> api_key[last.self]]
      /\ last.reads = <<>>
      /\ cache = last.pre
      /\ Succeeded(last.sent[1].outcome) <=> last.result.kind = "return"
      /\ Succeeded(last.sent[1].outcome) => last.result = Return(last.sent[1].outcome.body.doc)

\* A detect_language on a client whose language list is cached, and one
\* that would not validate anything: the body comes back.
C8_Witness ==
    /\ IsDetectOp /\ LruHas(cache, last.self)
    /\ last.result.kind = "return"

\* C6 as stated: the supported-language set of a client is computed at
\* most once (at most one successful getLangs request) and, once memoized,
\* is never evicted: it stays in the cache.
C6_ComputedOnceNeverEvicted ==
    /\ nFetched <= 1
    /\ nFetched >= 1 => LruHas(cache, watch)

\* C10 as stated: a 200 getLangs response with no 'langs' field is
\* memoized like any other result.  The read returns None, no later read
\* on that client sends another getLangs request, and every later
\* translate on it fails in target validation with an error that is not a
\* YandexException, before any 'translate' request.
C10_AbsentLangsMemoized ==
    (firstFetch # NoOutcome /\ Succeeded(firstFetch) /\ LangsOf(firstFetch) = None) =>
      /\ nGetLangs = 1
      /\ \A n \in 1..Len(last.reads) : last.reads[n] = Return(None)
      /\ IsTranslateOp =>
            /\ last.result.kind = "raise"
            /\ last.result.exc.type # "YandexException"
            /\ SelectSeq(last.sent, IsTranslate) = <<>>

\* C9: two callers racing on the unset cache of one client.  Each pays for
\* at most one successful fetch; the value one of them caches is never
\* replaced by the other's result; and a read that finds the cache set
\* returns the cached value.
C9_CacheKept ==
    [][LruHas(cache, Shared) =>
         (LruHas(cache', Shared) /\ LruGet(cache', Shared) = LruGet(cache, Shared))]_vars

C9_BenignRace ==
    /\ [](nFetched <= Cardinality(Threads))
    /\ [](\A t \in Threads : lastRead[t].kind = "hit" =>
             (LruHas(cache, Shared) /\ lastRead[t].result = Return(LruGet(cache, Shared))))
    /\ C9_CacheKept

\* Both callers fetched, with different results; the cache holds the
\* result of the one that stored first and the other returned its own.
C9_Witness ==
    /\ nFetched = 2
    /\ \A t \in Threads : lastRead[t].kind = "miss" /\ lastRead[t].result.kind = "return"
    /\ \E t \in Threads : lastRead[t].result # Return(LruGet(cache, Shared))
    /\ \E t \in Threads : lastRead[t].result = Return(LruGet(cache, Shared))
====
